---- MODULE Spec2Model ----
(***************************************************************************)
(* WalletBuddy_Service: the budget/ledger store and the daily-allowance    *)
(* calculation, in its two storage variants:                               *)
(*   "lowdb"    src/server.mjs        (flat file, whole dataset in memory) *)
(*   "supabase" src/unnamed/part_000  (hosted relational store)            *)
(*                                                                         *)
(* Record fields carry the lowdb names; the supabase variant names them    *)
(* id / user_id / is_income where lowdb has transactionid (spendingid) /   *)
(* userId / isIncome.  The model writes id, userId, isIncome for both.     *)
(* Dates are the DD/MM/YYYY strings of the source, written <<DD, MM>>, all *)
(* of the year 2024; money is a whole number and an allowance is a whole   *)
(* number of hundredths.                                                   *)
(* A supabase call is modelled by what the database does with the rows it  *)
(* holds; transport failures of the hosted store are outside the model.    *)
(***************************************************************************)
EXTENDS Integers, FiniteSets, Sequences, TLC

VARIABLES variant, dbConfig, configTable, transactions, spendings,
          nextId, addedBy, inflight, last

vars == <<variant, dbConfig, configTable, transactions, spendings,
          nextId, addedBy, inflight, last>>

(* ----------------------------- bounds ---------------------------------- *)
MaxIds == 2
MaxConfigRows == 2
MaxInflight == 2

Owners == {"u1", "u2"}
Slots == 1..MaxInflight
NoConfig == [none |-> TRUE]
Idle == [op |-> "idle"]
NoResponse == [op |-> "none"]

(* ------------------------- dayjs, DD/MM/YYYY --------------------------- *)
MonthDays == <<31, 29, 31, 30, 31, 30, 31, 31, 30, 31, 30, 31>>

RECURSIVE DaysBeforeMonth(_)
DaysBeforeMonth(mm) ==
  IF mm <= 1 THEN 0 ELSE MonthDays[mm - 1] + DaysBeforeMonth(mm - 1)

\* dayjs(str, 'DD/MM/YYYY'): local midnight of that day, here the day's
\* ordinal in the year (a day number past the month's end rolls over).
dayjs(date) == DaysBeforeMonth(date[2]) + date[1]

isBefore(a, b) == a < b
isAfter(a, b) == a > b
isSame(a, b) == a = b
diff(a, b) == a - b
addDay(a) == a + 1

(* ---------------------------- reductions ------------------------------- *)
\* every transaction counted as income
TxSignedMutant(t) == t.amount

\* (t.isIncome ? t.amount : -t.amount)
TxSigned(t) == IF t.isIncome THEN t.amount ELSE 0 - t.amount

RECURSIVE SumTransactions(_)
SumTransactions(S) ==
  IF S = {} THEN 0
  ELSE LET t == CHOOSE x \in S : TRUE
       IN TxSigned(t) + SumTransactions(S \ {t})

RECURSIVE SumAmount(_)
SumAmount(S) ==
  IF S = {} THEN 0
  ELSE LET s == CHOOSE x \in S : TRUE
       IN s.amount + SumAmount(S \ {s})

Abs(x) == IF x < 0 THEN 0 - x ELSE x

\* the digits cut off after the second decimal instead of rounded
toFixed2Mutant(num, den) ==
  (IF num < 0 THEN 0 - 1 ELSE 1) * ((100 * Abs(num)) \div den)

\* Number((num / den).toFixed(2)), in hundredths: the nearest hundredth,
\* the sign handled apart from the digits.
toFixed2(num, den) ==
  (IF num < 0 THEN 0 - 1 ELSE 1) * ((200 * Abs(num) + den) \div (2 * den))

(* ------------------------ the allowance handler ------------------------ *)
\* a boundary check that forgets the lower end
OutOfBoundsMutant(parsedDate, start, end) == isAfter(parsedDate, end)

\* parsedDate.isBefore(start) || parsedDate.isAfter(end)
OutOfBounds(parsedDate, start, end) ==
  isBefore(parsedDate, start) \/ isAfter(parsedDate, end)

\* start_money - end_money + transactions.reduce(...)
NetBalance(config, txs) ==
  config.start_money - config.end_money + SumTransactions(txs)

\* a day's sum that takes every spending up to that day
SpentTodayMutant(sps, current) ==
  SumAmount({s \in sps : dayjs(s.date) <= current})

\* spendings.filter(s => dayjs(s.date).isSame(current, 'day')).reduce(...)
SpentToday(sps, current) ==
  SumAmount({s \in sps : isSame(dayjs(s.date), current)})

\* an early stop one day too soon
WalkBreaksMutant(end, current) == diff(end, current) <= 1

\* const daysLeft = end.diff(current, 'day'); if (daysLeft <= 0) break;
WalkBreaks(end, current) == diff(end, current) <= 0

\* while (current.isBefore(parsedDate, 'day')) { ... }
RECURSIVE Walk(_, _, _, _, _, _)
Walk(current, parsedDate, end, remainingMoney, sps, iterations) ==
  IF ~ isBefore(current, parsedDate)
  THEN [remainingMoney |-> remainingMoney, iterations |-> iterations,
        broke |-> FALSE]
  ELSE IF WalkBreaks(end, current)
       THEN [remainingMoney |-> remainingMoney, iterations |-> iterations,
             broke |-> TRUE]
       ELSE Walk(addDay(current), parsedDate, end,
                 remainingMoney - SpentToday(sps, current), sps,
                 iterations + 1)

RemainingDays(end, parsedDate) == diff(end, parsedDate) + 1

\* The synchronous part of the handler, from the loaded config, transactions
\* and spendings to the response; walk is what the loop did.
Compute(config, txs, sps, date) ==
  LET parsedDate == dayjs(date)
      start == dayjs(config.start_date)
      end == dayjs(config.end_date)
      w == Walk(start, parsedDate, end, NetBalance(config, txs), sps, 0)
  IN [status |-> 200,
      dailyAllowance |-> toFixed2(w.remainingMoney, RemainingDays(end, parsedDate)),
      walk |-> w]

ConfigNotSet == [status |-> 400, error |-> "Config not set"]
DateOutOfBounds == [status |-> 400, error |-> "Date is out of bounds"]

DateRejected(config, date) ==
  OutOfBounds(dayjs(date), dayjs(config.start_date), dayjs(config.end_date))

(* ----------------------------- the store ------------------------------- *)
\* { <id>, <owner>, ...req.body }: the body's fields win
SpreadMutant(body, server) ==
  [k \in DOMAIN body \cup DOMAIN server |->
     IF k \in DOMAIN body THEN body[k] ELSE server[k]]

\* { ...req.body, <id>, <owner> }: the server's fields win.
Spread(body, server) ==
  [k \in DOMAIN body \cup DOMAIN server |->
     IF k \in DOMAIN server THEN server[k] ELSE body[k]]

\* a read that forgets the owner filter
OwnedMutant(S, userId) == S

\* .filter(t => t.userId === req.user.userId) / .eq('user_id', userId)
Owned(S, userId) == {r \in S : r.userId = userId}

\* .filter(t => !(t.transactionid === id && t.userId === userId))
\* .delete().eq('id', id).eq('user_id', userId)
KeepOnDelete(S, id, userId) ==
  {r \in S : ~ (r.id = id /\ r.userId = userId)}

\* .single(): the row when exactly one matches, an error (no data) otherwise.
Single(rows) ==
  IF Cardinality(rows) = 1 THEN CHOOSE r \in rows : TRUE ELSE NoConfig

ConfigOf(row) ==
  [start_money |-> row.start_money, start_date |-> row.start_date,
   end_money |-> row.end_money, end_date |-> row.end_date]

\* select('*').eq('user_id', userId).single() on the config table
SingleConfig(rows) ==
  IF Single(rows) = NoConfig THEN NoConfig ELSE ConfigOf(Single(rows))

SelectConfig(userId) == SingleConfig(Owned(configTable, userId))

\* What an owner's reads are drawn from, in a store holding these values:
\* the config written for the owner and the records the owner added.
ViewOf(v, dbc, ct, txs, sps, by, userId) ==
  [config |-> IF v = "lowdb" THEN dbc[userId]
              ELSE SingleConfig({r \in ct : r.userId = userId}),
   transactions |-> {r \in txs : by[r.id] = userId},
   spendings |-> {r \in sps : by[r.id] = userId}]

View(userId) ==
  ViewOf(variant, dbConfig, configTable, transactions, spendings, addedBy,
         userId)

\* The answer a query for date computes from what stands in view together.
Outcome(view, date) ==
  IF view.config = NoConfig THEN ConfigNotSet
  ELSE IF DateRejected(view.config, date) THEN DateOutOfBounds
  ELSE [status |-> 200,
        dailyAllowance |->
          Compute(view.config, view.transactions, view.spendings,
                  date).dailyAllowance]

Init ==
  /\ variant \in {"lowdb", "supabase"}
  /\ dbConfig = [o \in Owners |-> NoConfig]
  /\ configTable = {}
  /\ transactions = {}
  /\ spendings = {}
  /\ nextId = 1
  /\ addedBy = [i \in {} |-> "u1"]
  /\ inflight = [s \in Slots |-> Idle]
  /\ last = NoResponse


\* moments of a query in flight: the answers that the owner's data, as they
\* stand together after each step since the request, would give.
Track(inf) ==
  [s \in Slots |->
     IF inf[s].op = "dailyAllowance"
     THEN [inf[s] EXCEPT !.moments = @ \cup
             {Outcome(ViewOf(variant, dbConfig', configTable', transactions',
                             spendings', addedBy', inf[s].caller),
                      inf[s].date)}]
     ELSE inf[s]]

\* uuidv4() of a transaction or a spending: a value no record carries yet.
FreshId == nextId <= MaxIds

\* Rows that the config inserts in flight will still add.
Reserved ==
  Cardinality({s \in Slots : inflight[s].op = "postConfig" /\ ~ inflight[s].existing})

RoomForConfig == Cardinality(configTable) + Reserved < MaxConfigRows

\* uuidv4() of a config row: rows are never deleted, so the count is fresh.
ConfigRowId == Cardinality(configTable) + 1

(* ------------------------- lowdb: src/server.mjs ----------------------- *)
PostConfig(userId, body) ==
  /\ variant = "lowdb"
  /\ dbConfig' = [dbConfig EXCEPT ![userId] = body]
  /\ last' = [op |-> "postConfig", caller |-> userId, status |-> 200,
              config |-> body]
  /\ UNCHANGED <<variant, configTable, transactions, spendings, nextId, addedBy>>
  /\ inflight' = Track(inflight)

GetConfig(userId) ==
  /\ variant = "lowdb"
  /\ last' = [op |-> "getConfig", caller |-> userId,
              status |-> IF dbConfig[userId] = NoConfig THEN 404 ELSE 200,
              config |-> dbConfig[userId]]
  /\ UNCHANGED <<variant, dbConfig, configTable, transactions, spendings,
                 nextId, addedBy>>
  /\ inflight' = Track(inflight)

PostTransactions(userId, body) ==
  /\ variant = "lowdb"
  /\ FreshId
  /\ transactions' =
       transactions \cup {Spread(body, [id |-> nextId, userId |-> userId])}
  /\ nextId' = nextId + 1
  /\ addedBy' = addedBy @@ (nextId :> userId)
  /\ last' = [op |-> "postTransactions", caller |-> userId, status |-> 200,
              id |-> nextId]
  /\ UNCHANGED <<variant, dbConfig, configTable, spendings>>
  /\ inflight' = Track(inflight)

GetTransactions(userId) ==
  /\ variant = "lowdb"
  /\ last' = [op |-> "getTransactions", caller |-> userId, status |-> 200,
              list |-> Owned(transactions, userId)]
  /\ UNCHANGED <<variant, dbConfig, configTable, transactions, spendings,
                 nextId, addedBy>>
  /\ inflight' = Track(inflight)

DeleteTransactions(userId, id) ==
  /\ variant = "lowdb"
  /\ transactions' = KeepOnDelete(transactions, id, userId)
  /\ last' = [op |-> "deleteTransactions", caller |-> userId, id |-> id,
              status |-> IF Cardinality(transactions') = Cardinality(transactions)
                         THEN 404 ELSE 200]
  /\ UNCHANGED <<variant, dbConfig, configTable, spendings, nextId, addedBy>>
  /\ inflight' = Track(inflight)

PostSpendings(userId, body) ==
  /\ variant = "lowdb"
  /\ FreshId
  /\ spendings' =
       spendings \cup {Spread(body, [id |-> nextId, userId |-> userId])}
  /\ nextId' = nextId + 1
  /\ addedBy' = addedBy @@ (nextId :> userId)
  /\ last' = [op |-> "postSpendings", caller |-> userId, status |-> 200,
              id |-> nextId]
  /\ UNCHANGED <<variant, dbConfig, configTable, transactions>>
  /\ inflight' = Track(inflight)

GetSpendings(userId) ==
  /\ variant = "lowdb"
  /\ last' = [op |-> "getSpendings", caller |-> userId, status |-> 200,
              list |-> Owned(spendings, userId)]
  /\ UNCHANGED <<variant, dbConfig, configTable, transactions, spendings,
                 nextId, addedBy>>
  /\ inflight' = Track(inflight)

DeleteSpendings(userId, id) ==
  /\ variant = "lowdb"
  /\ spendings' = KeepOnDelete(spendings, id, userId)
  /\ last' = [op |-> "deleteSpendings", caller |-> userId, id |-> id,
              status |-> IF Cardinality(spendings') = Cardinality(spendings)
                         THEN 404 ELSE 200]
  /\ UNCHANGED <<variant, dbConfig, configTable, transactions, nextId, addedBy>>
  /\ inflight' = Track(inflight)

\* The response of an allowance query, with what it was computed from.
Respond(userId, date, config, txs, sps, moments, r) ==
  [op |-> "dailyAllowance", caller |-> userId, date |-> date,
   config |-> config, transactions |-> txs, spendings |-> sps,
   moments |-> moments, result |-> r]

GetDailyAllowance(userId, date) ==
  /\ variant = "lowdb"
  /\ LET config == dbConfig[userId]
         txs == Owned(transactions, userId)
         sps == Owned(spendings, userId)
     IN last' = Respond(userId, date, config, txs, sps, {Outcome(View(userId), date)},
                  IF config = NoConfig THEN ConfigNotSet
                  ELSE IF DateRejected(config, date) THEN DateOutOfBounds
                  ELSE Compute(config, txs, sps, date))
  /\ UNCHANGED <<variant, dbConfig, configTable, transactions, spendings,
                 nextId, addedBy>>
  /\ inflight' = Track(inflight)


(* --------------------- supabase: src/unnamed/part_000 ------------------ *)
\* POST /config up to the answer of its select
SbPostConfigSelect(s, userId, body) ==
  /\ variant = "supabase"
  /\ inflight[s] = Idle
  /\ SelectConfig(userId) # NoConfig \/ RoomForConfig
  /\ last' = NoResponse
  /\ UNCHANGED <<variant, dbConfig, configTable, transactions, spendings,
                 nextId, addedBy>>
  /\ inflight' = Track([inflight EXCEPT ![s] =
       [op |-> "postConfig", caller |-> userId, body |-> body,
        existing |-> SelectConfig(userId) # NoConfig]])

\* Whether the store refuses to insert a second config row for an owner is
\* the table's schema, which the repository does not hold: either can happen.
InsertRefused(userId) ==
  IF \E r \in configTable : r.userId = userId THEN BOOLEAN ELSE {FALSE}

\* POST /config from there: the update or the insert, and the response
SbPostConfigWrite(s) ==
  /\ variant = "supabase"
  /\ inflight[s].op = "postConfig"
  /\ LET userId == inflight[s].caller
         body == inflight[s].body
     IN IF inflight[s].existing
        THEN /\ configTable' =
                  {IF r.userId = userId
                   THEN Spread(r, body) ELSE r : r \in configTable}
             /\ last' = [op |-> "postConfig", caller |-> userId,
                         status |-> 200, config |-> body]
        ELSE \E error \in InsertRefused(userId) :
               IF error
               THEN /\ configTable' = configTable
                    /\ last' = [op |-> "postConfig", caller |-> userId,
                                status |-> 500, config |-> body]
               ELSE /\ configTable' = configTable \cup
                         {Spread(body, [id |-> ConfigRowId, userId |-> userId])}
                    /\ last' = [op |-> "postConfig", caller |-> userId,
                                status |-> 200, config |-> body]
  /\ UNCHANGED <<variant, dbConfig, transactions, spendings, nextId, addedBy>>
  /\ inflight' = Track([inflight EXCEPT ![s] = Idle])

SbGetConfig(userId) ==
  /\ variant = "supabase"
  /\ last' = [op |-> "getConfig", caller |-> userId,
              status |-> IF SelectConfig(userId) = NoConfig THEN 404 ELSE 200,
              config |-> SelectConfig(userId)]
  /\ UNCHANGED <<variant, dbConfig, configTable, transactions, spendings,
                 nextId, addedBy>>
  /\ inflight' = Track(inflight)

SbPostTransactions(userId, body) ==
  /\ variant = "supabase"
  /\ FreshId
  /\ transactions' =
       transactions \cup {Spread(body, [id |-> nextId, userId |-> userId])}
  /\ nextId' = nextId + 1
  /\ addedBy' = addedBy @@ (nextId :> userId)
  /\ last' = [op |-> "postTransactions", caller |-> userId, status |-> 200,
              id |-> nextId]
  /\ UNCHANGED <<variant, dbConfig, configTable, spendings>>
  /\ inflight' = Track(inflight)

SbGetTransactions(userId) ==
  /\ variant = "supabase"
  /\ last' = [op |-> "getTransactions", caller |-> userId, status |-> 200,
              list |-> Owned(transactions, userId)]
  /\ UNCHANGED <<variant, dbConfig, configTable, transactions, spendings,
                 nextId, addedBy>>
  /\ inflight' = Track(inflight)

\* A delete that matches no row is no error to the store: error is null.
SbDeleteTransactions(userId, id) ==
  /\ variant = "supabase"
  /\ transactions' = KeepOnDelete(transactions, id, userId)
  /\ last' = [op |-> "deleteTransactions", caller |-> userId, id |-> id,
              status |-> 200]
  /\ UNCHANGED <<variant, dbConfig, configTable, spendings, nextId, addedBy>>
  /\ inflight' = Track(inflight)

SbPostSpendings(userId, body) ==
  /\ variant = "supabase"
  /\ FreshId
  /\ spendings' =
       spendings \cup {Spread(body, [id |-> nextId, userId |-> userId])}
  /\ nextId' = nextId + 1
  /\ addedBy' = addedBy @@ (nextId :> userId)
  /\ last' = [op |-> "postSpendings", caller |-> userId, status |-> 200,
              id |-> nextId]
  /\ UNCHANGED <<variant, dbConfig, configTable, transactions>>
  /\ inflight' = Track(inflight)

SbGetSpendings(userId) ==
  /\ variant = "supabase"
  /\ last' = [op |-> "getSpendings", caller |-> userId, status |-> 200,
              list |-> Owned(spendings, userId)]
  /\ UNCHANGED <<variant, dbConfig, configTable, transactions, spendings,
                 nextId, addedBy>>
  /\ inflight' = Track(inflight)

SbDeleteSpendings(userId, id) ==
  /\ variant = "supabase"
  /\ spendings' = KeepOnDelete(spendings, id, userId)
  /\ last' = [op |-> "deleteSpendings", caller |-> userId, id |-> id,
              status |-> 200]
  /\ UNCHANGED <<variant, dbConfig, configTable, transactions, nextId, addedBy>>
  /\ inflight' = Track(inflight)

\* GET /daily-allowance/:date up to the answer of the config select, and
\* the two early returns
SbAllowanceConfig(s, userId, date) ==
  /\ variant = "supabase"
  /\ inflight[s] = Idle
  /\ UNCHANGED <<variant, dbConfig, configTable, transactions, spendings,
                 nextId, addedBy>>
  /\ LET config == SelectConfig(userId)
     IN IF config = NoConfig \/ DateRejected(config, date)
        THEN /\ last' = Respond(userId, date, config, {}, {}, {Outcome(View(userId), date)},
                          IF config = NoConfig THEN ConfigNotSet
                          ELSE DateOutOfBounds)
             /\ inflight' = Track(inflight)
        ELSE /\ last' = NoResponse
             /\ inflight' = Track([inflight EXCEPT ![s] =
                  [op |-> "dailyAllowance", caller |-> userId, date |-> date,
                   stage |-> "transactions", config |-> config,
                   transactions |-> {}, moments |-> {}]])

\* ... up to the answer of the transactions select
SbAllowanceTransactions(s) ==
  /\ variant = "supabase"
  /\ inflight[s].op = "dailyAllowance"
  /\ inflight[s].stage = "transactions"
  /\ last' = NoResponse
  /\ UNCHANGED <<variant, dbConfig, configTable, transactions, spendings,
                 nextId, addedBy>>
  /\ inflight' = Track([inflight EXCEPT ![s] =
       [@ EXCEPT !.stage = "spendings",
                 !.transactions = Owned(transactions, inflight[s].caller)]])

\* ... the spendings select, the computation and the response
SbAllowanceSpendings(s) ==
  /\ variant = "supabase"
  /\ inflight[s].op = "dailyAllowance"
  /\ inflight[s].stage = "spendings"
  /\ LET q == inflight[s]
         sps == Owned(spendings, q.caller)
     IN last' = Respond(q.caller, q.date, q.config, q.transactions, sps,
                        q.moments, Compute(q.config, q.transactions, sps, q.date))
  /\ UNCHANGED <<variant, dbConfig, configTable, transactions, spendings,
                 nextId, addedBy>>
  /\ inflight' = Track([inflight EXCEPT ![s] = Idle])


(* ------------------------------ inputs --------------------------------- *)
Dates == {<<30, 1>>, <<31, 1>>, <<1, 2>>, <<2, 2>>}

Config(sm, sd, em, ed) ==
  [start_money |-> sm, start_date |-> sd, end_money |-> em, end_date |-> ed]

\* Budget windows of every length and order over Dates, and a window whose
\* end_money exceeds its start_money.
CalcConfigs ==
  {Config(10, sd, 2, ed) : sd \in Dates, ed \in Dates}
    \cup {Config(2, <<30, 1>>, 10, ed) : ed \in Dates}

CalcTransactions ==
  {[amount |-> 10, isIncome |-> i, date |-> <<31, 1>>] : i \in BOOLEAN}

CalcSpendings == {[amount |-> 1, date |-> d] : d \in Dates}

\* The calculator: one owner, one request at a time, every window and date.
NextCalc ==
  \/ \E body \in CalcConfigs :
       PostConfig("u1", body) \/ SbPostConfigSelect(1, "u1", body)
  \/ SbPostConfigWrite(1)
  \/ \E body \in CalcTransactions :
       PostTransactions("u1", body) \/ SbPostTransactions("u1", body)
  \/ \E body \in CalcSpendings :
       PostSpendings("u1", body) \/ SbPostSpendings("u1", body)
  \/ \E date \in Dates :
       GetDailyAllowance("u1", date) \/ SbAllowanceConfig(1, "u1", date)
  \/ SbAllowanceTransactions(1)
  \/ SbAllowanceSpendings(1)

SpecCalc == Init /\ [][NextCalc]_vars


\* Two budgets over the same window.
StoreConfigs ==
  {Config(10, <<30, 1>>, 2, <<2, 2>>), Config(6, <<30, 1>>, 2, <<2, 2>>)}

\* A body that carries the owner and id fields the server sets itself.
Forged(body, o) == Spread(body, [userId |-> o, id |-> 1])

StoreTransaction == [amount |-> 2, isIncome |-> TRUE]

StoreSpending == [amount |-> 1, date |-> <<31, 1>>]

StoreDate == <<1, 2>>

\* The budget an owner sends: no two owners send the same.
OwnConfig(userId) ==
  IF userId = "u1" THEN Config(10, <<30, 1>>, 2, <<2, 2>>)
  ELSE Config(6, <<30, 1>>, 2, <<2, 2>>)

\* The store, one request at a time: u1 sends every request there is, with
\* plain and with forged bodies, to its own and to foreign ids, while u2
\* keeps a config and a ledger of its own and reads them.
Next ==
  \/ \E userId \in Owners :
       \/ PostConfig(userId, OwnConfig(userId))
       \/ SbPostConfigSelect(1, userId, OwnConfig(userId))
  \/ SbPostConfigWrite(1)
  \/ \E userId \in Owners : GetConfig(userId) \/ SbGetConfig(userId)
  \/ \E body \in {StoreTransaction, Forged(StoreTransaction, "u2")} :
       PostTransactions("u1", body) \/ SbPostTransactions("u1", body)
  \/ PostTransactions("u2", StoreTransaction)
  \/ SbPostTransactions("u2", StoreTransaction)
  \/ \E userId \in Owners :
       GetTransactions(userId) \/ SbGetTransactions(userId)
  \/ \E id \in 1..MaxIds :
       DeleteTransactions("u1", id) \/ SbDeleteTransactions("u1", id)
  \/ \E body \in {StoreSpending, Forged(StoreSpending, "u2")} :
       PostSpendings("u1", body) \/ SbPostSpendings("u1", body)
  \/ PostSpendings("u2", StoreSpending)
  \/ SbPostSpendings("u2", StoreSpending)
  \/ \E userId \in Owners : GetSpendings(userId) \/ SbGetSpendings(userId)
  \/ \E id \in 1..MaxIds :
       DeleteSpendings("u1", id) \/ SbDeleteSpendings("u1", id)
  \/ \E userId \in Owners :
       GetDailyAllowance(userId, StoreDate)
         \/ SbAllowanceConfig(1, userId, StoreDate)
  \/ SbAllowanceTransactions(1)
  \/ SbAllowanceSpendings(1)

Spec == Init /\ [][Next]_vars

\* Upserts of the config overlapping at their await, with its readers.
NextUpsert ==
  \/ \E userId \in Owners, body \in StoreConfigs :
       \/ PostConfig(userId, body)
       \/ \E s \in Slots : SbPostConfigSelect(s, userId, body)
  \/ \E s \in Slots : SbPostConfigWrite(s)
  \/ \E userId \in Owners : GetConfig(userId) \/ SbGetConfig(userId)
  \/ \E userId \in Owners :
       \/ GetDailyAllowance(userId, StoreDate)
       \/ \E s \in Slots : SbAllowanceConfig(s, userId, StoreDate)
  \/ \E s \in Slots : SbAllowanceTransactions(s)
  \/ \E s \in Slots : SbAllowanceSpendings(s)

SpecUpsert == Init /\ [][NextUpsert]_vars

\* One allowance query of an owner overlapping, at each of its awaits, with
\* the owner's own writes and with another owner's.
NextSnapshot ==
  \/ \E body \in StoreConfigs :
       PostConfig("u1", body) \/ SbPostConfigSelect(2, "u1", body)
  \/ SbPostConfigWrite(2)
  \/ \E userId \in Owners :
       \/ PostTransactions(userId, StoreTransaction)
       \/ SbPostTransactions(userId, StoreTransaction)
  \/ \E id \in 1..MaxIds :
       DeleteTransactions("u1", id) \/ SbDeleteTransactions("u1", id)
  \/ PostSpendings("u1", StoreSpending) \/ SbPostSpendings("u1", StoreSpending)
  \/ GetDailyAllowance("u1", StoreDate)
  \/ SbAllowanceConfig(1, "u1", StoreDate)
  \/ SbAllowanceTransactions(1)
  \/ SbAllowanceSpendings(1)

SpecSnapshot == Init /\ [][NextSnapshot]_vars

(* --------------------- claims about the calculator --------------------- *)
\* An allowance query was answered with a number.
Answered == last.op = "dailyAllowance" /\ last.result.status = 200

StartDay == dayjs(last.config.start_date)
EndDay == dayjs(last.config.end_date)
QueryDay == dayjs(last.date)

\* start_money - end_money + the signed sum of the loaded transactions
LoadedNet ==
  last.config.start_money - last.config.end_money
    + SumTransactions(last.transactions)

\* C4: a query whose date lies before start_date or after end_date of the
\* stored config is answered "Date is out of bounds", never with a number;
\* so every date is rejected when start_date > end_date.
C4_OutOfRangeRejected ==
  (/\ last.op = "dailyAllowance"
   /\ last.config # NoConfig
   /\ (QueryDay < StartDay \/ QueryDay > EndDay))
  => last.result = DateOutOfBounds

C4_Witness ==
  /\ last.op = "dailyAllowance"
  /\ last.config # NoConfig
  /\ StartDay > EndDay
  /\ EndDay < QueryDay /\ QueryDay < StartDay
  /\ last.result = DateOutOfBounds

\* C5 as stated: a loaded spending dated strictly before d lowers the balance
\* of the final division by exactly its amount, one dated on d or later
\* changes nothing of the result.
C5_SpendingBeforeQueryDate ==
  Answered =>
    \A s \in last.spendings :
      LET without == Compute(last.config, last.transactions,
                             last.spendings \ {s}, last.date)
      IN IF dayjs(s.date) < QueryDay
         THEN last.result.walk.remainingMoney
                = without.walk.remainingMoney - s.amount
         ELSE last.result = without

\* C5 amended: a loaded spending dated in [start_date, d) lowers the balance
\* of the final division by exactly its amount; one dated before start_date,
\* on d or later changes nothing of the result.
C5_SpendingInWalkedDays ==
  Answered =>
    \A s \in last.spendings :
      LET without == Compute(last.config, last.transactions,
                             last.spendings \ {s}, last.date)
      IN IF StartDay <= dayjs(s.date) /\ dayjs(s.date) < QueryDay
         THEN last.result.walk.remainingMoney
                = without.walk.remainingMoney - s.amount
         ELSE last.result = without

C5_Witness ==
  /\ Answered
  /\ \E s \in last.spendings : dayjs(s.date) < StartDay
  /\ \E s \in last.spendings :
       StartDay <= dayjs(s.date) /\ dayjs(s.date) < QueryDay

\* The amount a transaction adds to the money of the period.
Inflow(t) == IF t.isIncome THEN t.amount ELSE 0 - t.amount

\* C6 as stated: with a loaded transaction of amount A the result (hundredths)
\* is higher by exactly A / remaining_days for an income, lower for an outflow,
\* than the same query without it.
C6_TransactionShiftsResultExactly ==
  Answered =>
    \A t \in last.transactions :
      LET without == Compute(last.config, last.transactions \ {t},
                             last.spendings, last.date)
      IN (last.result.dailyAllowance - without.dailyAllowance)
           * RemainingDays(EndDay, QueryDay) = 100 * Inflow(t)

\* C6 amended: the transaction, whatever its date, moves the balance of the
\* final division by exactly its amount, and the rounded result by
\* A / remaining_days to within one hundredth.
C6_TransactionShiftsBalance ==
  Answered =>
    \A t \in last.transactions :
      LET without == Compute(last.config, last.transactions \ {t},
                             last.spendings, last.date)
          days == RemainingDays(EndDay, QueryDay)
      IN /\ last.result.walk.remainingMoney
              = without.walk.remainingMoney + Inflow(t)
         /\ Abs((last.result.dailyAllowance - without.dailyAllowance) * days
                  - 100 * Inflow(t)) <= days

C6_Witness ==
  /\ Answered
  /\ \E t \in last.transactions : t.isIncome /\ dayjs(t.date) > QueryDay
  /\ RemainingDays(EndDay, QueryDay) = 3
  /\ last.result.dailyAllowance * 3 # 100 * last.result.walk.remainingMoney

\* C7: with no transactions and no spendings loaded the result is
\* (start_money - end_money) / ((end_date - d) + 1) to the nearest hundredth;
\* at d = end_date it is start_money - end_money itself, and at
\* d = start_date the walk makes no iteration.
C7_NoLedgerAllowance ==
  (Answered /\ last.transactions = {} /\ last.spendings = {}) =>
    LET net == last.config.start_money - last.config.end_money
        days == (EndDay - QueryDay) + 1
    IN /\ 2 * Abs(last.result.dailyAllowance * days - 100 * net) <= days
       /\ QueryDay = EndDay => last.result.dailyAllowance = 100 * net
       /\ QueryDay = StartDay => last.result.walk.iterations = 0

C7_Witness ==
  /\ Answered /\ last.transactions = {} /\ last.spendings = {}
  /\ (EndDay - QueryDay) + 1 = 3
  /\ StartDay < QueryDay
  /\ last.result.dailyAllowance = 267

\* C10: in an answered query the early stop never fired: the walk made
\* d - start_date iterations and the balance divided is the net balance less
\* the loaded spendings dated in [start_date, d), also at d = end_date.
C10_WalkNeverStopsEarly ==
  Answered =>
    /\ ~ last.result.walk.broke
    /\ last.result.walk.iterations = QueryDay - StartDay
    /\ last.result.walk.remainingMoney =
         LoadedNet - SumAmount({s \in last.spendings :
                      StartDay <= dayjs(s.date) /\ dayjs(s.date) < QueryDay})

C10_Witness ==
  /\ Answered
  /\ QueryDay = EndDay /\ StartDay < QueryDay
  /\ \E s \in last.spendings : dayjs(s.date) = QueryDay - 1
  /\ last.result.walk.iterations = QueryDay - StartDay


(* ------------------------ claims about the store ----------------------- *)
\* The records of S that userId added, by being the adder of their id.
MineOf(S, by, userId) == {r \in S : by[r.id] = userId}

Mine(S, userId) == MineOf(S, addedBy, userId)

\* Everything the store holds for userId.
Data(userId) ==
  <<dbConfig[userId], {r \in configTable : r.userId = userId},
    Mine(transactions, userId), Mine(spendings, userId)>>

\* The step answered a delete of id, which a record of S of another owner has.
ForeignDelete(op, S) ==
  /\ last'.op = op
  /\ \E r \in S : r.id = last'.id /\ r.userId # last'.caller

\* C1: in both variants a delete of a transaction or spending whose id exists
\* but belongs to another owner is answered not-found, never success, and
\* leaves the record in the store.
C1_ForeignDeleteNotFound ==
  [][/\ ForeignDelete("deleteTransactions", transactions)
          => last'.status = 404 /\ transactions' = transactions
     /\ ForeignDelete("deleteSpendings", spendings)
          => last'.status = 404 /\ spendings' = spendings]_vars

\* The body of an allowance response: the number or the error.
Answer(r) ==
  IF r.status = 200
  THEN [status |-> 200, dailyAllowance |-> r.dailyAllowance] ELSE r

\* What the step's response shows its caller is the caller's own.
ShowsOwn ==
  /\ last'.op = "getTransactions"
       => last'.list = MineOf(transactions', addedBy', last'.caller)
  /\ last'.op = "getSpendings"
       => last'.list = MineOf(spendings', addedBy', last'.caller)
  /\ last'.op = "getConfig"
       => \/ last'.config = dbConfig'[last'.caller]
          \/ \E r \in configTable' :
               r.userId = last'.caller /\ ConfigOf(r) = last'.config
  /\ last'.op = "dailyAllowance"
       => /\ last'.config \in {NoConfig, OwnConfig(last'.caller)}
          /\ \A r \in last'.transactions \cup last'.spendings :
               addedBy'[r.id] = last'.caller
          /\ Answer(last'.result) =
               Outcome([config |-> last'.config,
                        transactions |-> last'.transactions,
                        spendings |-> last'.spendings], last'.date)
          /\ variant = "lowdb" =>
               Answer(last'.result) = Outcome(View(last'.caller), last'.date)

\* C2: every stored record is tagged with the caller that added it, whatever
\* owner or id fields the body carried; a step of one owner leaves what the
\* store holds for every other owner as it was; and a list, a config or an
\* allowance answered to an owner holds that owner's data only.
C2_OwnerIsolation ==
  [][/\ \A r \in transactions' \cup spendings' : r.userId = addedBy'[r.id]
     /\ \A o \in Owners :
          (last'.op = "none" \/ last'.caller # o) => Data(o)' = Data(o)
     /\ ShowsOwn]_vars

C2_Witness ==
  /\ last.op = "deleteTransactions" /\ last.caller = "u1"
  /\ \E r \in transactions : r.id = last.id /\ addedBy[r.id] = "u2"
  /\ Mine(spendings, "u1") # {}
  /\ Data("u2")[1] # NoConfig \/ Data("u2")[2] # {}

(* ---------------------- claims about concurrency ----------------------- *)
\* An upsert of the owner's config has completed.
HasWritten(userId) ==
  dbConfig[userId] # NoConfig \/ \E r \in configTable : r.userId = userId

UpsertInFlight(userId) ==
  \E s \in Slots : inflight[s].op = "postConfig" /\ inflight[s].caller = userId

\* C3: whatever way upserts of one owner overlap, the store holds at most one
\* config for the owner, a reader gets no config or one written config whole,
\* and once the upserts are done getConfig finds a config.
C3_UpsertAtomic ==
  /\ \A o \in Owners : Cardinality({r \in configTable : r.userId = o}) <= 1
  /\ (last.op = "getConfig" /\ last.status = 200)
       => last.config \in StoreConfigs
  /\ (last.op = "getConfig" /\ HasWritten(last.caller)
        /\ ~ UpsertInFlight(last.caller))
       => last.status = 200

\* C8: an allowance query of an owner who never upserted a config is answered
\* "Config not set"; one made after an upsert of the owner completed never is.
C8_ConfigMissing ==
  last.op = "dailyAllowance" =>
    /\ (~ HasWritten(last.caller) /\ ~ UpsertInFlight(last.caller))
         => last.result = ConfigNotSet
    /\ HasWritten(last.caller) => last.result # ConfigNotSet

\* C9 as stated: the number returned is the one that the owner's config,
\* transactions and spendings give as they stood together at one moment
\* between the request and the response.
C9_OneSnapshot ==
  Answered =>
    \E m \in last.moments :
      m.status = 200 /\ m.dailyAllowance = last.result.dailyAllowance

\* C9 amended: in lowdb the answer is computed from the owner's data as they
\* stand together at the one step of the request; in supabase the config,
\* the transactions and the spendings are the owner's as they stand at the
\* step that reads each, and the number is computed from those three.
C9_ReadAtLoad ==
  [][/\ (variant = "lowdb" /\ last'.op = "dailyAllowance")
          => Answer(last'.result) = Outcome(View(last'.caller), last'.date)
     /\ \A s \in Slots :
          /\ (inflight[s] = Idle /\ inflight'[s].op = "dailyAllowance")
               => inflight'[s].config = View(inflight'[s].caller).config
          /\ (inflight[s].op = "dailyAllowance"
                /\ inflight'[s].op = "dailyAllowance"
                /\ inflight[s].stage = "transactions"
                /\ inflight'[s].stage = "spendings")
               => /\ inflight'[s].transactions
                       = View(inflight[s].caller).transactions
                  /\ inflight'[s].config = inflight[s].config
          /\ (inflight[s].op = "dailyAllowance" /\ inflight'[s] = Idle)
               => last'.result.dailyAllowance
                    = Compute(inflight[s].config, inflight[s].transactions,
                              View(inflight[s].caller).spendings,
                              inflight[s].date).dailyAllowance]_vars

C9_Witness ==
  /\ Answered
  /\ variant = "supabase"
  /\ \A m \in last.moments :
       m.status = 200 => m.dailyAllowance # last.result.dailyAllowance

====
